---- MODULE Spec2Model ----
(***************************************************************************)
(* A model of the AlloyDB survey MCP server: the query construction of     *)
(* AlloyDBConnection.get_survey_data and of search_surveys_by_question,    *)
(* the per-query connection handling of AlloyDBConnection.execute_query,   *)
(* the two request handlers call_tool and read_resource, and the process   *)
(* lifecycle of main.                                                      *)
(*                                                                         *)
(* Two specifications share the variables:                                 *)
(*   SpecBuild  applies the two query builders to every argument mapping   *)
(*              of a bounded domain (claims about the built SQL);          *)
(*   Spec       runs main and interleaved handler invocations, one step    *)
(*              per await point, against a connector and a database whose  *)
(*              outcomes are nondeterministic.                             *)
(***************************************************************************)
EXTENDS Integers, Sequences, FiniteSets, TLC

VARIABLES
    built,          \* SpecBuild: the last builder invocation and its result
    main_pc,        \* position of main()                     server.py:354-378
    env_ok,         \* the four required ALLOYDB_* variables are set
    db_connection,  \* the module global db_connection          server.py:37
    connector,      \* AlloyDBConnection.connector            database.py:17,33
    has_getconn,    \* hasattr(self, '_getconn')              database.py:50,65
    calls,          \* the handler invocations in flight, one per slot
    conns,          \* the connections opened by execute_query and not closed
    connect_failed, \* history: some `await self._getconn()` has raised
    hist            \* history of main: connectors created and closed, the
                    \* exception main ends with, a request served by app.run

vars == <<built, main_pc, env_ok, db_connection, connector, has_getconn, calls, conns, connect_failed,
          hist>>

(***************************************************************************)
(* Python values.  A value carries its type; i is meaningful for an int,   *)
(* s for a str.  None stands for an argument the caller left out (the      *)
(* default of every Optional parameter).                                   *)
(***************************************************************************)
None == [t |-> "none", i |-> 0, s |-> ""]
IntV(n) == [t |-> "int", i |-> n, s |-> ""]
StrV(x) == [t |-> "str", i |-> 0, s |-> x]

\* The test `is not None` in place of the truth value.
IsNotNone(v) == v.t # "none"

\* Python truth value of a value: None, 0 and "" are falsy.
Truthy(v) == \/ v.t = "int" /\ v.i # 0
             \/ v.t = "str" /\ v.s # ""

\* str(v), as an f-string renders the value.
Str(v) == IF v.t = "int" THEN ToString(v.i)
          ELSE IF v.t = "str" THEN v.s
          ELSE "None"

\* f"%{v}%"
Wildcard(v) == StrV("%" \o Str(v) \o "%")

\* The integers the model's callers send, and their decimal numerals.
IntVals == {-1, 0, 5}

\* pydantic's int validation (lax mode): an int is kept, a str that is a
\* decimal numeral is converted, any other str is rejected.
IsNumeral(x) == \E n \in IntVals : ToString(n) = x
ParseInt(x) == CHOOSE n \in IntVals : ToString(n) = x

DefaultFetchLimit == 100
DefaultSearchLimit == 50

NoArgs ==
    [survey_id |-> None, location |-> None, date_from |-> None, date_to |-> None,
     respondent_type |-> None, limit |-> None,
     question_text |-> None, response_text |-> None]

(***************************************************************************)
(* Query text is the sequence of the fragments the code concatenates, in   *)
(* order; a built query is the text with the positional parameter list.    *)
(***************************************************************************)
BaseQuery == "SELECT survey_id, respondent_id, survey_date, location, respondent_type, questions_responses, metadata, created_at, updated_at FROM surveys WHERE 1=1"
OrderLimit == " ORDER BY survey_date DESC LIMIT "

\* One `if <value>:` block of get_survey_data: count, append fragment, bind.
AddFilter(q, v, fragment, bound) ==
    IF Truthy(v)
    THEN [param_count |-> q.param_count + 1,
          text |-> Append(q.text, fragment \o ToString(q.param_count + 1)),
          params |-> Append(q.params, bound)]
    ELSE q

get_survey_data(survey_id, location, date_from, date_to, respondent_type, limit) ==
    LET q0 == [param_count |-> 0, text |-> <<BaseQuery>>, params |-> <<>>]
        q1 == AddFilter(q0, survey_id, " AND survey_id = $", survey_id)
        q2 == AddFilter(q1, location, " AND location ILIKE $", Wildcard(location))
        q3 == AddFilter(q2, date_from, " AND survey_date >= $", date_from)
        q4 == AddFilter(q3, date_to, " AND survey_date <= $", date_to)
        q5 == AddFilter(q4, respondent_type, " AND respondent_type = $", respondent_type)
    IN  [label |-> "survey_data",
         text |-> q5.text \o <<OrderLimit, Str(limit)>>,
         params |-> q5.params]

\* SurveyQueryParams(**arguments): the limit field (int, default 100).
LimitValid(a) ==
    \/ a.limit.t \in {"none", "int"}
    \/ a.limit.t = "str" /\ IsNumeral(a.limit.s)

SurveyQueryParams(a) ==
    [a EXCEPT !.limit = IF a.limit.t = "none" THEN IntV(DefaultFetchLimit)
                        ELSE IF a.limit.t = "str" THEN IntV(ParseInt(a.limit.s))
                        ELSE a.limit]

\* ' AND '.join(search_conditions)
RECURSIVE Join(_, _)
Join(parts, sep) ==
    IF Len(parts) = 0 THEN <<>>
    ELSE IF Len(parts) = 1 THEN <<parts[1]>>
    ELSE <<parts[1], sep>> \o Join(Tail(parts), sep)

SearchHead == "SELECT survey_id, respondent_id, survey_date, location, respondent_type, questions_responses, created_at FROM surveys WHERE "
SearchCondition == "questions_responses::text ILIKE $"

\* AddCondition with the placeholder counter never advanced: every condition
\* is numbered $1.
AddConditionSameIndex(q, v) ==
    IF Truthy(v)
    THEN [param_count |-> q.param_count,
          text |-> Append(q.text, SearchCondition \o ToString(q.param_count + 1)),
          params |-> Append(q.params, Wildcard(v))]
    ELSE q

\* One `if <text>:` block of search_surveys_by_question.
AddCondition(q, v) ==
    IF Truthy(v)
    THEN [param_count |-> q.param_count + 1,
          text |-> Append(q.text, SearchCondition \o ToString(q.param_count + 1)),
          params |-> Append(q.params, Wildcard(v))]
    ELSE q

\* search_conditions and params of search_surveys_by_question.
SearchConditions(a) ==
    AddCondition(AddCondition([param_count |-> 0, text |-> <<>>, params |-> <<>>],
                              a.question_text),
                 a.response_text)

\* The check for an empty condition list left out.
NoSearchConditionsUnchecked(sc) == FALSE

\* `if not search_conditions:`
NoSearchConditions(sc) == Len(sc.text) = 0

SearchLimit(a) == IF a.limit.t = "none" THEN IntV(DefaultSearchLimit) ELSE a.limit

SearchQuery(a) ==
    LET sc == SearchConditions(a)
    IN  [label |-> "search",
         text |-> <<SearchHead>> \o Join(sc.text, " AND ")
                  \o <<OrderLimit, Str(SearchLimit(a))>>,
         params |-> sc.params]

StatsQuery ==
    [label |-> "statistics",
     text |-> <<"SELECT COUNT(*) as total_surveys, COUNT(DISTINCT location) as unique_locations, COUNT(DISTINCT respondent_type) as respondent_types, MIN(survey_date) as earliest_survey, MAX(survey_date) as latest_survey, COUNT(DISTINCT DATE(survey_date)) as survey_days FROM surveys">>,
     params |-> <<>>]
LocationsQuery ==
    [label |-> "locations",
     text |-> <<"SELECT DISTINCT location FROM surveys WHERE location IS NOT NULL ORDER BY location">>,
     params |-> <<>>]
RespondentTypesQuery ==
    [label |-> "respondent_types",
     text |-> <<"SELECT DISTINCT respondent_type FROM surveys WHERE respondent_type IS NOT NULL ORDER BY respondent_type">>,
     params |-> <<>>]

NoQuery == [label |-> "none", text |-> <<>>, params |-> <<>>]

(***************************************************************************)
(* Argument domains.                                                       *)
(***************************************************************************)
SurveyIds == {None, IntV(0), IntV(5)}
Texts(x) == {None, StrV(""), StrV(x)}
Limits == {None, IntV(-1), IntV(0), IntV(5), StrV("5"), StrV("5; DROP TABLE surveys")}

FetchArgs(v1, v2, v3, v4, v5, v6) ==
    [NoArgs EXCEPT !.survey_id = v1, !.location = v2, !.date_from = v3,
                   !.date_to = v4, !.respondent_type = v5, !.limit = v6]

SearchArgs(v1, v2, v3) ==
    [NoArgs EXCEPT !.question_text = v1, !.response_text = v2, !.limit = v3]

(***************************************************************************)
(* SpecBuild: the builders applied to every argument mapping.              *)
(***************************************************************************)
NotBuilt == [op |-> "none", args |-> NoArgs, rejected |-> FALSE, query |-> NoQuery]

\* call_tool, branch fetch_survey_data, up to the call of execute_query.
FetchBuild(a) ==
    IF LimitValid(a)
    THEN LET p == SurveyQueryParams(a)
         IN  [op |-> "fetch_survey_data", args |-> a, rejected |-> FALSE,
              query |-> get_survey_data(p.survey_id, p.location, p.date_from,
                                        p.date_to, p.respondent_type, p.limit)]
    ELSE [op |-> "fetch_survey_data", args |-> a, rejected |-> TRUE, query |-> NoQuery]

\* call_tool, branch search_surveys_by_question, up to the call of execute_query.
SearchBuild(a) ==
    IF NoSearchConditions(SearchConditions(a))
    THEN [op |-> "search_surveys_by_question", args |-> a, rejected |-> TRUE,
          query |-> NoQuery]
    ELSE [op |-> "search_surveys_by_question", args |-> a, rejected |-> FALSE,
          query |-> SearchQuery(a)]

IdleCall ==
    [kind |-> "none", name |-> "", args |-> NoArgs, pc |-> "idle", qi |-> 0,
     pending |-> "none", got |-> <<>>, issued |-> <<>>, resp |-> <<>>,
     raised |-> "none", exc |-> "none", acq |-> 0, rel |-> 0]

NumSlots == 1
Slots == 1..NumSlots

HandlersIdle ==
    /\ main_pc = "start"
    /\ env_ok \in BOOLEAN
    /\ db_connection = "None"
    /\ connector = "None"
    /\ has_getconn = FALSE
    /\ calls = [c \in Slots |-> IdleCall]
    /\ conns = {}
    /\ connect_failed = FALSE
    /\ hist = [inits |-> 0, closes |-> 0, raised |-> "none", served |-> FALSE]

InitBuild == built = NotBuilt /\ HandlersIdle

BuildSurveyQuery ==
    /\ built = NotBuilt
    /\ \E v1 \in SurveyIds, v2 \in Texts("springfield"), v3 \in Texts("2024-01-01"),
          v4 \in Texts("2024-12-31"), v5 \in Texts("farmer"), v6 \in Limits :
          built' = FetchBuild(FetchArgs(v1, v2, v3, v4, v5, v6))
    /\ UNCHANGED <<main_pc, env_ok, db_connection, connector, has_getconn, calls, conns, connect_failed,
                   hist>>

BuildSearchQuery ==
    /\ built = NotBuilt
    /\ \E v1 \in Texts("abc"), v2 \in Texts("xyz"), v3 \in Limits :
          built' = SearchBuild(SearchArgs(v1, v2, v3))
    /\ UNCHANGED <<main_pc, env_ok, db_connection, connector, has_getconn, calls, conns, connect_failed,
                   hist>>

NextBuild == BuildSurveyQuery \/ BuildSearchQuery

SpecBuild == InitBuild /\ [][NextBuild]_vars


(***************************************************************************)
(* Handlers.  A call record is one invocation of call_tool or              *)
(* read_resource; pc is the await it is suspended at.                      *)
(*   got     the results obtained so far (locals stats, locations, ...)    *)
(*   issued  the queries handed to conn.fetch, in order                    *)
(*   resp    the responses returned to the caller                          *)
(*   raised  the exception that left the handler, "none" if none did       *)
(*   exc     the last exception raised inside the handler                  *)
(*   acq/rel connections acquired / closed by the call's execute_query     *)
(***************************************************************************)
FetchTool == "fetch_survey_data"
SummaryTool == "get_survey_summary"
SearchTool == "search_surveys_by_question"
KnownTools == {FetchTool, SummaryTool, SearchTool}

StatisticsUri == "alloydb://surveys/statistics"
LocationsUri == "alloydb://surveys/locations"
RespondentTypesUri == "alloydb://surveys/respondent-types"
KnownUris == {StatisticsUri, LocationsUri, RespondentTypesUri}

\* get_survey_summary asking for the locations before the statistics.
SummaryPlanReordered == <<LocationsQuery, StatsQuery, RespondentTypesQuery>>

\* The three awaits of get_survey_summary, in program order.
SummaryPlan == <<StatsQuery, LocationsQuery, RespondentTypesQuery>>

\* The queries a handler invocation runs, in program order.
Plan(call) ==
    IF call.kind = "tool"
    THEN IF call.name = FetchTool
         THEN <<FetchBuild(call.args).query>>
         ELSE IF call.name = SummaryTool THEN SummaryPlan
         ELSE IF call.name = SearchTool THEN <<SearchQuery(call.args)>>
         ELSE <<>>
    ELSE IF call.name = StatisticsUri THEN <<StatsQuery>>
         ELSE IF call.name = LocationsUri THEN <<LocationsQuery>>
         ELSE IF call.name = RespondentTypesUri THEN <<RespondentTypesQuery>>
         ELSE <<>>

ErrorResponse(msg) == [kind |-> "error", text |-> "Error: " \o msg, data |-> <<>>]
DataResponse(got) == [kind |-> "data", text |-> "json", data |-> got]

\* An except clause that returns the results gathered so far with the error.
CaughtExceptionPartial(call, e, msg) ==
    [call EXCEPT !.pc = "done", !.qi = 0, !.pending = "none", !.exc = e,
                 !.resp = Append(@, [kind |-> "error", text |-> "Error: " \o msg,
                                     data |-> call.got])]

\* `except Exception as e:` of call_tool and of read_resource: the error text
\* is the whole response.
CaughtException(call, e, msg) ==
    [call EXCEPT !.pc = "done", !.qi = 0, !.pending = "none", !.exc = e,
                 !.resp = Append(@, ErrorResponse(msg))]

\* An exception that no handler clause catches leaves the handler.
Propagate(call, e) ==
    [call EXCEPT !.pc = "done", !.qi = 0, !.pending = "none", !.exc = e, !.raised = e]

\* A `return CallToolResult(...)` with an error text, outside the except clause.
ReturnError(call, msg) ==
    [call EXCEPT !.pc = "done", !.resp = Append(@, ErrorResponse(msg))]

\* execute_query without the hasattr check.
ExecuteQueryEntryUnchecked(call, n, getconn_set) ==
    [call EXCEPT !.pc = "connect", !.qi = n]

\* execute_query up to its first await: the hasattr check.
ExecuteQueryEntry(call, n, getconn_set) ==
    IF getconn_set
    THEN [call EXCEPT !.pc = "connect", !.qi = n]
    ELSE CaughtException([call EXCEPT !.qi = n], "RuntimeError",
                         "Database connection not initialized")

\* call_tool from its entry to its first await or its return.
call_tool(call, handle, getconn_set) ==
    IF handle = "None"
    THEN ReturnError(call, "Database connection not initialized")
    ELSE IF call.name = FetchTool
    THEN IF FetchBuild(call.args).rejected
         THEN CaughtException(call, "ValidationError", "validation error for SurveyQueryParams")
         ELSE ExecuteQueryEntry(call, 1, getconn_set)
    ELSE IF call.name = SummaryTool
    THEN ExecuteQueryEntry(call, 1, getconn_set)
    ELSE IF call.name = SearchTool
    THEN IF NoSearchConditions(SearchConditions(call.args))
         THEN ReturnError(call, "At least one search parameter (question_text or response_text) is required")
         ELSE ExecuteQueryEntry(call, 1, getconn_set)
    ELSE ReturnError(call, "Unknown tool '" \o call.name \o "'")

\* read_resource from its entry to its first await or its return.
read_resource(call, handle, getconn_set) ==
    IF handle = "None"
    THEN Propagate(call, "RuntimeError")
    ELSE IF call.name \in KnownUris
    THEN ExecuteQueryEntry(call, 1, getconn_set)
    ELSE CaughtException(call, "ValueError", "Unknown resource: " \o call.name)


\* One connection kept on the instance and used by every invocation.
ConnOfShared(c, call) == [owner |-> 0, n |-> 1]

\* The connection held by the local `conn` of invocation c's execute_query:
\* each `await self._getconn()` returns a connection of its own.
ConnOf(c, call) == [owner |-> c, n |-> call.acq]

\* A connector failure that leaves a half-made connection behind.
ConnsAfterConnectLeaky(open, c, call, outcome) ==
    IF outcome = "cancel" THEN open ELSE open \cup {[owner |-> c, n |-> call.acq + 1]}

\* `conn = await self._getconn()`: conn is bound only when the connector
\* returns a connection.
ConnsAfterConnect(open, c, call, outcome) ==
    IF outcome = "ok" THEN open \cup {ConnOf(c, [call EXCEPT !.acq = @ + 1])} ELSE open

\* The close placed after the fetch instead of in a finally clause: a fetch
\* that raises skips it.
AfterFetchNoFinally(outcome) == IF outcome = "rows" THEN "close" ELSE "raise"

\* The `finally: await conn.close()` of execute_query: whatever the fetch did,
\* the close is what runs next.
AfterFetch(outcome) == "close"

\* execute_query has returned its rows to the handler: keep them, then run the
\* next query of the handler or return the response.
AfterRows(call, getconn_set) ==
    LET kept == [call EXCEPT !.got = Append(@, Plan(call)[call.qi].label),
                             !.pending = "none"]
    IN  IF call.qi < Len(Plan(call))
        THEN ExecuteQueryEntry(kept, call.qi + 1, getconn_set)
        ELSE [kept EXCEPT !.pc = "done", !.qi = 0,
                          !.resp = Append(@, DataResponse(kept.got))]

\* The invocation after `await self._getconn()` has completed.
ConnectStep(call, outcome) ==
    IF outcome = "ok"
    THEN [call EXCEPT !.pc = "fetch", !.acq = @ + 1,
                      !.issued = Append(@, Plan(call)[call.qi].label)]
    ELSE IF outcome = "error"
    THEN CaughtException(call, "ConnectionError", "connector failed")
    ELSE Propagate(call, "CancelledError")

\* What `await conn.fetch(...)` can do: on an open connection it returns rows,
\* raises a driver error or is cancelled; on a connection that has been closed
\* the driver raises.
FetchOutcomes(open, conn) ==
    IF conn \in open THEN {"rows", "error", "cancel"} ELSE {"closed"}

\* The invocation after `await conn.fetch(...)` has completed.
FetchStep(call, outcome) ==
    IF AfterFetch(outcome) = "close"
    THEN [call EXCEPT !.pc = "close", !.pending = outcome]
    ELSE IF outcome = "error"
    THEN CaughtException(call, "QueryError", "query failed")
    ELSE Propagate(call, "CancelledError")

\* The invocation after `await conn.close()` has completed: a close that
\* raises replaces the pending outcome of the fetch, else that outcome takes
\* effect.
CloseStep(call, closed, getconn_set) ==
    LET released == [call EXCEPT !.rel = @ + 1]
    IN  IF closed = "error"
        THEN CaughtException(released, "CloseError", "close failed")
        ELSE IF released.pending = "rows"
        THEN AfterRows(released, getconn_set)
        ELSE IF released.pending = "error"
        THEN CaughtException(released, "QueryError", "query failed")
        ELSE IF released.pending = "closed"
        THEN CaughtException(released, "InterfaceError", "connection is closed")
        ELSE Propagate(released, "CancelledError")

(***************************************************************************)
(* The argument mappings and identifiers the handlers are invoked with.    *)
(***************************************************************************)
FetchCalls ==
    {NoArgs,
     [NoArgs EXCEPT !.survey_id = IntV(5), !.limit = IntV(5)],
     [NoArgs EXCEPT !.location = StrV("springfield"), !.limit = StrV("5")],
     [NoArgs EXCEPT !.limit = StrV("5; DROP TABLE surveys")]}

SearchCalls ==
    {NoArgs,
     [NoArgs EXCEPT !.question_text = StrV("abc")],
     [NoArgs EXCEPT !.question_text = StrV("abc"), !.response_text = StrV("xyz")],
     [NoArgs EXCEPT !.question_text = StrV("")],
     [NoArgs EXCEPT !.response_text = StrV("xyz"),
                    !.limit = StrV("5; DROP TABLE surveys")]}

ToolInputs ==
    {<<FetchTool, a>> : a \in FetchCalls}
    \cup {<<SummaryTool, NoArgs>>}
    \cup {<<SearchTool, a>> : a \in SearchCalls}
    \cup {<<"delete_surveys", NoArgs>>}

ResourceInputs == KnownUris \cup {"alloydb://surveys/unknown"}

(***************************************************************************)
(* Actions of the handlers.  The handlers are module-level coroutines: the *)
(* transport invokes them while main serves, and a host that imports the   *)
(* module (test_server.py:68-73) invokes them whatever main has done.      *)
(***************************************************************************)
Globals == <<built, main_pc, env_ok, db_connection, connector, has_getconn>>

InvokeTool(c) ==
    /\ calls[c].pc = "idle"
    /\ \E in \in ToolInputs :
          calls' = [calls EXCEPT ![c] =
                       call_tool([IdleCall EXCEPT !.kind = "tool", !.name = in[1],
                                                  !.args = in[2]],
                                 db_connection, has_getconn)]
    /\ hist' = [hist EXCEPT !.served = @ \/ main_pc = "serving"]
    /\ UNCHANGED <<Globals, conns, connect_failed>>

InvokeResource(c) ==
    /\ calls[c].pc = "idle"
    /\ \E uri \in ResourceInputs :
          calls' = [calls EXCEPT ![c] =
                       read_resource([IdleCall EXCEPT !.kind = "resource", !.name = uri],
                                     db_connection, has_getconn)]
    /\ hist' = [hist EXCEPT !.served = @ \/ main_pc = "serving"]
    /\ UNCHANGED <<Globals, conns, connect_failed>>

\* `conn = await self._getconn()` completes: with a connection, with a
\* connector failure, or with the task cancelled.
Connect(c) ==
    /\ calls[c].pc = "connect"
    /\ \E outcome \in {"ok", "error", "cancel"} :
          /\ outcome = "ok" => connector = "open"
          /\ conns' = ConnsAfterConnect(conns, c, calls[c], outcome)
          /\ connect_failed' = (connect_failed \/ outcome = "error")
          /\ calls' = [calls EXCEPT ![c] = ConnectStep(@, outcome)]
    /\ UNCHANGED <<Globals, hist>>

\* `rows = await conn.fetch(...)` completes: with rows, with a driver error, or
\* with the task cancelled.
Fetch(c) ==
    /\ calls[c].pc = "fetch"
    /\ \E outcome \in FetchOutcomes(conns, ConnOf(c, calls[c])) :
          calls' = [calls EXCEPT ![c] = FetchStep(@, outcome)]
    /\ UNCHANGED <<Globals, conns, connect_failed, hist>>

\* `await conn.close()` completes; the connection is closed whether the close
\* returns or raises.  Then the pending outcome of the fetch takes effect.
Close(c) ==
    /\ calls[c].pc = "close"
    /\ conns' = conns \ {ConnOf(c, calls[c])}
    /\ \E closed \in {"ok", "error"} :
          calls' = [calls EXCEPT ![c] = CloseStep(@, closed, has_getconn)]
    /\ UNCHANGED <<Globals, connect_failed, hist>>

\* The caller has taken the outcome of the invocation; the slot is free again.
Deliver(c) ==
    /\ calls[c].pc = "done"
    /\ calls' = [calls EXCEPT ![c] = IdleCall]
    /\ UNCHANGED <<Globals, conns, connect_failed, hist>>

(***************************************************************************)
(* main().                                                                 *)
(***************************************************************************)
\* `db_connection = AlloyDBConnection()`: __init__ raises ValueError when a
\* required identifier is missing, and then the global is not assigned.
MainConstruct ==
    /\ main_pc = "start"
    /\ IF env_ok
       THEN db_connection' = "set" /\ main_pc' = "constructed" /\ hist' = hist
       ELSE db_connection' = db_connection /\ main_pc' = "finally"
            /\ hist' = [hist EXCEPT !.raised = "ValueError"]
    /\ UNCHANGED <<built, env_ok, connector, has_getconn, calls, conns, connect_failed>>

\* `await db_connection.initialize()`: Connector() is created and _getconn
\* stored, or Connector() raises and neither is.
MainInitialize ==
    /\ main_pc = "constructed"
    /\ \E ok \in BOOLEAN :
          IF ok
          THEN connector' = "open" /\ has_getconn' = TRUE /\ main_pc' = "serving"
               /\ hist' = [hist EXCEPT !.inits = @ + 1]
          ELSE connector' = connector /\ has_getconn' = has_getconn
               /\ main_pc' = "finally"
               /\ hist' = [hist EXCEPT !.raised = "ConnectorError"]
    /\ UNCHANGED <<built, env_ok, db_connection, calls, conns, connect_failed>>

\* stdio_server / app.run ends, normally or with an exception (stdio_server
\* failing to start is the case of no request served).
MainServeEnd ==
    /\ main_pc = "serving"
    /\ main_pc' = "finally"
    /\ \E e \in {"none", "TransportError"} : hist' = [hist EXCEPT !.raised = e]
    /\ UNCHANGED <<built, env_ok, db_connection, connector, has_getconn, calls, conns, connect_failed>>

\* The cleanup written after the try block instead of in its finally clause:
\* it runs only when nothing was raised.
MainFinallyOnSuccessOnly ==
    /\ main_pc = "finally"
    /\ main_pc' = "exited"
    /\ IF hist.raised = "none" /\ db_connection # "None" /\ connector = "open"
       THEN connector' = "closed" /\ hist' = [hist EXCEPT !.closes = @ + 1]
       ELSE connector' = connector /\ hist' = hist
    /\ UNCHANGED <<built, env_ok, db_connection, has_getconn, calls, conns, connect_failed>>

\* `finally: if db_connection: await db_connection.close()`, and close():
\* `if self.connector: await self.connector.close_async()`.
MainFinally ==
    /\ main_pc = "finally"
    /\ main_pc' = "exited"
    /\ IF db_connection # "None" /\ connector = "open"
       THEN connector' = "closed" /\ hist' = [hist EXCEPT !.closes = @ + 1]
       ELSE connector' = connector /\ hist' = hist
    /\ UNCHANGED <<built, env_ok, db_connection, has_getconn, calls, conns, connect_failed>>

Init == built = NotBuilt /\ HandlersIdle

Next ==
    \/ MainConstruct
    \/ MainInitialize
    \/ MainServeEnd
    \/ MainFinally
    \/ \E c \in Slots : InvokeTool(c)
    \/ \E c \in Slots : InvokeResource(c)
    \/ \E c \in Slots : Connect(c)
    \/ \E c \in Slots : Fetch(c)
    \/ \E c \in Slots : Close(c)
    \/ \E c \in Slots : Deliver(c)

Spec == Init /\ [][Next]_vars

(***************************************************************************)
(* Several invocations in flight at once.  The host dispatches call_tool   *)
(* and read_resource as tasks of one event loop: the steps of different    *)
(* invocations interleave at their awaits.  The process is started with    *)
(* its configuration complete, and the inputs are a tool that runs three   *)
(* queries and a resource that runs one.                                   *)
(***************************************************************************)
NumConc == 2
ConcSlots == 1..NumConc

ConcToolInputs == {<<SummaryTool, NoArgs>>}
ConcResourceInputs == {LocationsUri}

InitConc ==
    /\ built = NotBuilt
    /\ main_pc = "start"
    /\ env_ok = TRUE
    /\ db_connection = "None"
    /\ connector = "None"
    /\ has_getconn = FALSE
    /\ calls = [c \in ConcSlots |-> IdleCall]
    /\ conns = {}
    /\ connect_failed = FALSE
    /\ hist = [inits |-> 0, closes |-> 0, raised |-> "none", served |-> FALSE]

ConcInvokeTool(c) ==
    /\ calls[c].pc = "idle"
    /\ \E in \in ConcToolInputs :
          calls' = [calls EXCEPT ![c] =
                       call_tool([IdleCall EXCEPT !.kind = "tool", !.name = in[1],
                                                  !.args = in[2]],
                                 db_connection, has_getconn)]
    /\ hist' = [hist EXCEPT !.served = @ \/ main_pc = "serving"]
    /\ UNCHANGED <<Globals, conns, connect_failed>>

ConcInvokeResource(c) ==
    /\ calls[c].pc = "idle"
    /\ \E uri \in ConcResourceInputs :
          calls' = [calls EXCEPT ![c] =
                       read_resource([IdleCall EXCEPT !.kind = "resource", !.name = uri],
                                     db_connection, has_getconn)]
    /\ hist' = [hist EXCEPT !.served = @ \/ main_pc = "serving"]
    /\ UNCHANGED <<Globals, conns, connect_failed>>

NextConc ==
    \/ MainConstruct
    \/ MainInitialize
    \/ MainServeEnd
    \/ MainFinally
    \/ \E c \in ConcSlots : ConcInvokeTool(c)
    \/ \E c \in ConcSlots : ConcInvokeResource(c)
    \/ \E c \in ConcSlots : Connect(c)
    \/ \E c \in ConcSlots : Fetch(c)
    \/ \E c \in ConcSlots : Close(c)
    \/ \E c \in ConcSlots : Deliver(c)

SpecConc == InitConc /\ [][NextConc]_vars


(***************************************************************************)
(* Claims about the built queries, checked under SpecBuild.                *)
(***************************************************************************)
FilterOrder == <<"survey_id", "location", "date_from", "date_to", "respondent_type">>

FilterFragment ==
    [survey_id |-> " AND survey_id = $", location |-> " AND location ILIKE $",
     date_from |-> " AND survey_date >= $", date_to |-> " AND survey_date <= $",
     respondent_type |-> " AND respondent_type = $"]

\* The filters of an argument mapping that the caller supplied, in declared order.
PresentFilters(a) == SelectSeq(FilterOrder, LAMBDA f : a[f].t # "none")

\* The value a present filter is bound as.
BoundAs(a, f) == IF f = "location" THEN StrV("%" \o a[f].s \o "%") ELSE a[f]

\* The text of a survey query is the base, one fragment per filter of fs with
\* placeholders $1..$k in that order, and the ORDER BY / LIMIT clause; the
\* parameters are the k bound values in the same order.
QueryMatches(q, a, fs) ==
    /\ Len(q.params) = Len(fs)
    /\ Len(q.text) = Len(fs) + 3
    /\ q.text[1] = BaseQuery
    /\ \A j \in 1..Len(fs) :
          /\ q.text[j + 1] = FilterFragment[fs[j]] \o ToString(j)
          /\ q.params[j] = BoundAs(a, fs[j])

\* C1: in every get_survey_data call with k of the five optional filters
\* present, the SQL text holds exactly the placeholders $1..$k, the parameter
\* list has k entries, and predicates and parameters come in the order
\* identifier, location, date-from, date-to, respondent-type, the location
\* bound as '%'+value+'%' and every other value unchanged.
C1_PlaceholdersMatchPresentFilters ==
    (built.op = FetchTool /\ ~built.rejected)
        => QueryMatches(built.query, built.args, PresentFilters(built.args))

\* The WHERE clause of a search query: the fragments between the head and the
\* ORDER BY / LIMIT clause.
WhereClause(q) == SubSeq(q.text, 2, Len(q.text) - 2)

\* C4: in search_surveys_by_question, exactly one of question_text and
\* response_text present gives exactly one substring predicate with $1 bound
\* to '%'+text+'%'; both present give two predicates joined by AND, $1 bound
\* to the wildcarded question text and $2 to the wildcarded response text.
C4_SearchPredicatesMatchPresentTexts ==
    built.op = SearchTool =>
        LET qt == built.args.question_text
            rt == built.args.response_text
            q  == built.query
        IN  /\ (qt.t # "none" /\ rt.t = "none") =>
                  /\ ~built.rejected
                  /\ WhereClause(q) = <<SearchCondition \o "1">>
                  /\ q.params = <<StrV("%" \o qt.s \o "%")>>
            /\ (qt.t = "none" /\ rt.t # "none") =>
                  /\ ~built.rejected
                  /\ WhereClause(q) = <<SearchCondition \o "1">>
                  /\ q.params = <<StrV("%" \o rt.s \o "%")>>
            /\ (qt.t # "none" /\ rt.t # "none") =>
                  /\ ~built.rejected
                  /\ WhereClause(q) = <<SearchCondition \o "1", " AND ",
                                        SearchCondition \o "2">>
                  /\ q.params = <<StrV("%" \o qt.s \o "%"), StrV("%" \o rt.s \o "%")>>


\* A text argument that is a non-empty string.
NonEmpty(v) == v.t = "str" /\ v.s # ""

\* C4 (amended): in search_surveys_by_question, exactly one of question_text
\* and response_text being a non-empty text gives exactly one substring
\* predicate with $1 bound to '%'+text+'%'; both being non-empty gives two
\* predicates joined by AND, $1 bound to the wildcarded question text and $2
\* to the wildcarded response text.  An empty text counts as an absent one.
C4_SearchPredicatesMatchNonEmptyTexts ==
    built.op = SearchTool =>
        LET qt == built.args.question_text
            rt == built.args.response_text
            q  == built.query
        IN  /\ (NonEmpty(qt) /\ ~NonEmpty(rt)) =>
                  /\ ~built.rejected
                  /\ WhereClause(q) = <<SearchCondition \o "1">>
                  /\ q.params = <<StrV("%" \o qt.s \o "%")>>
            /\ (~NonEmpty(qt) /\ NonEmpty(rt)) =>
                  /\ ~built.rejected
                  /\ WhereClause(q) = <<SearchCondition \o "1">>
                  /\ q.params = <<StrV("%" \o rt.s \o "%")>>
            /\ (NonEmpty(qt) /\ NonEmpty(rt)) =>
                  /\ ~built.rejected
                  /\ WhereClause(q) = <<SearchCondition \o "1", " AND ",
                                        SearchCondition \o "2">>
                  /\ q.params = <<StrV("%" \o qt.s \o "%"), StrV("%" \o rt.s \o "%")>>

\* A search with both texts non-empty has been built.
C4_Witness ==
    /\ built.op = SearchTool
    /\ NonEmpty(built.args.question_text)
    /\ NonEmpty(built.args.response_text)
    /\ Len(built.query.params) = 2

(***************************************************************************)
(* Claims about the handlers, checked under Spec.                          *)
(***************************************************************************)
\* The decimal numerals of the positive integers of the model.
PositiveNumerals ==
    {ToString(n) : n \in {m \in IntVals \cup {DefaultFetchLimit, DefaultSearchLimit} : m >= 1}}

\* The SQL fragments that hold no caller text.
FixedFragments ==
    {BaseQuery, SearchHead, OrderLimit, " AND "}
    \cup {FilterFragment[FilterOrder[f]] \o ToString(j) : f \in 1..Len(FilterOrder),
                                                        j \in 1..Len(FilterOrder)}
    \cup {SearchCondition \o "1", SearchCondition \o "2"}

\* C2: in every query that fetch_survey_data or search_surveys_by_question
\* hands to the database, the text after LIMIT is a positive integer and never
\* unvalidated caller text, and no other fragment of the SQL text holds a
\* caller value.
C2_LimitIsValidatedPositiveInteger ==
    \A c \in Slots :
        (calls[c].kind = "tool" /\ calls[c].name \in {FetchTool, SearchTool}
         /\ calls[c].pc = "fetch") =>
            LET q == Plan(calls[c])[calls[c].qi]
                n == Len(q.text)
            IN  /\ q.text[n] \in PositiveNumerals
                /\ \A j \in 1..(n - 1) : q.text[j] \in FixedFragments

OwnedBy(c) == {k \in conns : k.owner = c}

IsErrorText(resp) ==
    /\ Len(resp) = 1
    /\ resp[1].kind = "error"
    /\ resp[1].data = <<>>

\* C3: a search_surveys_by_question call with neither question_text nor
\* response_text present returns an error response and never touches the
\* database: it is never suspended on a connection or a query, acquires no
\* connection and issues no query.
C3_SearchWithoutTextTouchesNoDatabase ==
    \A c \in Slots :
        (calls[c].kind = "tool" /\ calls[c].name = SearchTool
         /\ calls[c].args.question_text = None /\ calls[c].args.response_text = None) =>
            /\ calls[c].pc = "done"
            /\ IsErrorText(calls[c].resp)
            /\ calls[c].raised = "none"
            /\ calls[c].acq = 0
            /\ calls[c].issued = <<>>
            /\ OwnedBy(c) = {}

\* Such a call has returned while the connection was initialised and the
\* connector open, so that only the validation kept it from the database.
C3_Witness ==
    \E c \in Slots :
        /\ calls[c].kind = "tool" /\ calls[c].name = SearchTool
        /\ calls[c].args.question_text = None /\ calls[c].args.response_text = None
        /\ calls[c].pc = "done"
        /\ db_connection = "set" /\ has_getconn /\ connector = "open"

\* C5: every call_tool invocation that is not cancelled returns exactly one
\* response and raises nothing, whatever step failed; no response exists
\* before it returns; and when a step failed the response is the error text
\* alone, with none of the results obtained before the failure.
C5_CallToolAllOrNothing ==
    \A c \in Slots :
        calls[c].kind = "tool" =>
            /\ calls[c].pc # "done" => calls[c].resp = <<>>
            /\ (calls[c].pc = "done" /\ calls[c].exc # "CancelledError") =>
                  /\ calls[c].raised = "none"
                  /\ Len(calls[c].resp) = 1
                  /\ calls[c].exc # "none" => IsErrorText(calls[c].resp)
                  /\ calls[c].resp[1].kind = "data" =>
                        calls[c].resp[1].data = calls[c].got

\* A get_survey_summary whose statistics query succeeded and whose later
\* query failed has returned.
C5_Witness ==
    \E c \in Slots :
        /\ calls[c].kind = "tool" /\ calls[c].name = SummaryTool
        /\ calls[c].pc = "done"
        /\ calls[c].exc = "QueryError"
        /\ Len(calls[c].got) >= 1
        /\ IsErrorText(calls[c].resp)

\* C6: every read_resource invocation that is not cancelled, in every state
\* of db_connection, returns exactly one response (the JSON body or an error
\* text) and raises nothing.
C6_ReadResourceNeverRaises ==
    \A c \in Slots :
        (calls[c].kind = "resource" /\ calls[c].pc = "done"
         /\ calls[c].exc # "CancelledError") =>
            /\ calls[c].raised = "none"
            /\ Len(calls[c].resp) = 1

\* C7: a call_tool with an unknown operation name and a read_resource with an
\* unknown identifier each return an error response, raise nothing and
\* execute no query.
C7_UnknownNameIsErrorResponse ==
    \A c \in Slots :
        (\/ calls[c].kind = "tool" /\ calls[c].name \notin KnownTools
         \/ calls[c].kind = "resource" /\ calls[c].name \notin KnownUris) =>
            /\ calls[c].pc = "done"
            /\ IsErrorText(calls[c].resp)
            /\ calls[c].raised = "none"
            /\ calls[c].issued = <<>>
            /\ calls[c].acq = 0


\* C8: each execute_query holds exactly one connection from the moment the
\* connector returns it until its close, and none before or after: on every
\* exit path (rows, driver error, cancellation during the fetch) the
\* connection is closed before the call returns or raises, so that once every
\* call has completed no connection is open.
C8_ConnectionClosedOnEveryExit ==
    /\ \A c \in Slots :
          /\ calls[c].pc \in {"fetch", "close"} =>
                /\ OwnedBy(c) = {[owner |-> c, n |-> calls[c].acq]}
                /\ calls[c].acq = calls[c].rel + 1
          /\ calls[c].pc \in {"idle", "connect", "done"} =>
                /\ OwnedBy(c) = {}
                /\ calls[c].acq = calls[c].rel
          /\ calls[c].acq = Len(calls[c].issued)
    /\ (\A c \in Slots : calls[c].pc \in {"idle", "done"}) => conns = {}

\* An execute_query was cancelled during its fetch, its connection has been
\* closed and the cancellation has left the handler.
C8_Witness ==
    \E c \in Slots :
        /\ calls[c].pc = "done"
        /\ calls[c].raised = "CancelledError"
        /\ calls[c].acq = 1 /\ calls[c].rel = 1
        /\ conns = {}

IsPrefix(p, q) == Len(p) <= Len(q) /\ \A j \in 1..Len(p) : p[j] = q[j]

\* C9: every tool call that has returned without cancellation, in a server
\* whose connection is initialised, has performed at most three round-trips
\* if it is get_survey_summary and exactly one otherwise.
C9_ExactlyOneRoundTripOtherwise ==
    \A c \in Slots :
        (calls[c].kind = "tool" /\ calls[c].pc = "done" /\ has_getconn
         /\ calls[c].exc # "CancelledError") =>
            IF calls[c].name = SummaryTool
            THEN Len(calls[c].issued) <= 3
            ELSE Len(calls[c].issued) = 1

\* C9 (amended): a call_tool invocation performs at most three round-trips,
\* in the order statistics, locations, respondent types, when it is
\* get_survey_summary, and at most one otherwise; a call that returns data
\* has performed all three, respectively exactly one; a call rejected before
\* its query (unknown operation, no search text, invalid arguments, no usable
\* connection) has performed none; and a round-trip starts only when every
\* earlier one of the call has finished.
C9_RoundTripsSequentialAndBounded ==
    \A c \in Slots :
        calls[c].kind = "tool" =>
            LET call == calls[c]
                returnedData == call.pc = "done" /\ Len(call.resp) = 1
                                /\ call.resp[1].kind = "data"
            IN  /\ IF call.name = SummaryTool
                   THEN /\ IsPrefix(call.issued,
                                    <<"statistics", "locations", "respondent_types">>)
                        /\ returnedData => Len(call.issued) = 3
                   ELSE /\ Len(call.issued) <= 1
                        /\ returnedData => Len(call.issued) = 1
                /\ call.name \notin KnownTools => call.issued = <<>>
                /\ call.rel <= Len(call.issued)
                /\ Len(call.issued) <= call.rel + 1
                /\ Len(call.issued) = call.rel + 1 <=> call.pc \in {"fetch", "close"}
                /\ Cardinality(OwnedBy(c)) <= 1

\* A get_survey_summary has returned its data after three round-trips.
C9_Witness ==
    \E c \in Slots :
        /\ calls[c].kind = "tool" /\ calls[c].name = SummaryTool
        /\ calls[c].pc = "done"
        /\ calls[c].issued = <<"statistics", "locations", "respondent_types">>
        /\ calls[c].resp = <<DataResponse(calls[c].issued)>>

\* The step in which the connector fails to produce a connection for call c.
ConnectorFails(c) ==
    /\ calls[c].pc = "connect"
    /\ calls'[c].pc = "done"
    /\ calls'[c].exc = "ConnectionError"

\* C10: when the connector fails during execute_query, the call_tool caller
\* gets an error text and no exception, no connection is left open, and the
\* connection handle (db_connection, its connector and its _getconn) is what
\* it was; and a call that, after such a failure, gets its connection and its
\* rows returns them as data.
C10_ConnectorFailureLeavesHandleReusable ==
    /\ [][\A c \in Slots :
            (calls[c].kind = "tool" /\ ConnectorFails(c)) =>
                /\ IsErrorText(calls'[c].resp)
                /\ calls'[c].raised = "none"
                /\ conns' = conns
                /\ OwnedBy(c) = {}
                /\ db_connection' = db_connection
                /\ connector' = connector
                /\ has_getconn' = has_getconn]_vars
    /\ [](\A c \in Slots :
            (connect_failed /\ calls[c].kind = "tool" /\ calls[c].pc = "done"
             /\ calls[c].exc = "none" /\ calls[c].issued # <<>>) =>
                calls[c].resp = <<DataResponse(calls[c].issued)>>)

\* After a connector failure, a later call has run its query and returned data.
C10_Witness ==
    /\ connect_failed
    /\ \E c \in Slots :
          /\ calls[c].kind = "tool" /\ calls[c].pc = "done"
          /\ calls[c].issued # <<>>
          /\ Len(calls[c].resp) = 1 /\ calls[c].resp[1].kind = "data"


(***************************************************************************)
(* Claims about main, checked under Spec.                                  *)
(***************************************************************************)
\* C11: over the run of main the connector is initialized at most once and
\* before any request is served by app.run; it is closed only by main's
\* finally clause, and when main has exited every connector that was created
\* has been closed exactly once, whatever main ended with (a transport that
\* failed after the connector was created included); with a required
\* identifier missing main ends with ValueError, creates no connector and
\* serves no request.
C11_ConnectorInitializedOnceTornDownOnce ==
    /\ hist.inits <= 1
    /\ hist.served => hist.inits = 1
    /\ hist.closes > 0 => main_pc = "exited"
    /\ main_pc = "serving" =>
          /\ db_connection = "set" /\ connector = "open" /\ has_getconn
          /\ hist.inits = 1
    /\ main_pc = "exited" => hist.closes = hist.inits /\ connector # "open"
    /\ ~env_ok =>
          /\ main_pc \in {"start", "finally", "exited"}
          /\ main_pc # "start" => hist.raised = "ValueError"
          /\ hist.inits = 0 /\ ~hist.served

\* main has exited with the exception of a transport that failed before any
\* request was served, and the connector it had created has been closed.
C11_Witness ==
    /\ main_pc = "exited"
    /\ hist.raised = "TransportError" /\ ~hist.served
    /\ hist.inits = 1 /\ hist.closes = 1 /\ connector = "closed"

(***************************************************************************)
(* Claims about interleaved invocations, checked under SpecConc.           *)
(***************************************************************************)
\* The invocation holds a connection: it is between `await self._getconn()`
\* and the end of `await conn.close()`.
InFlight(call) == call.pc \in {"fetch", "close"}

\* The records one step of an invocation can lead to when it is the only one
\* running, against a handle in the given state.
AloneSteps(call, handle, getconn_set) ==
    IF call.pc = "idle"
    THEN {call_tool([IdleCall EXCEPT !.kind = "tool", !.name = in[1], !.args = in[2]],
                    handle, getconn_set) : in \in ConcToolInputs}
         \cup {read_resource([IdleCall EXCEPT !.kind = "resource", !.name = uri],
                             handle, getconn_set) : uri \in ConcResourceInputs}
    ELSE IF call.pc = "connect"
    THEN {ConnectStep(call, o) : o \in {"ok", "error", "cancel"}}
    ELSE IF call.pc = "fetch"
    THEN {FetchStep(call, o) : o \in {"rows", "error", "cancel"}}
    ELSE IF call.pc = "close"
    THEN {CloseStep(call, k, getconn_set) : k \in {"ok", "error"}}
    ELSE {IdleCall}

\* C12: interleaved invocations are independent.  Every invocation that is
\* between acquiring and closing a connection holds an open connection that
\* no other invocation holds, and there are no other open connections; a step
\* of one invocation leaves the records of the others and the module globals
\* unchanged, opens and closes only its own connection, and leads to a
\* record that the invocation can reach by the same step when it runs alone
\* (so its response is one it produces alone: no failure is forced on it).
C12_InterleavedInvocationsIndependent ==
    /\ [](/\ \A c \in DOMAIN calls :
                InFlight(calls[c]) =>
                   /\ ConnOf(c, calls[c]) \in conns
                   /\ \A d \in DOMAIN calls \ {c} :
                         InFlight(calls[d]) => ConnOf(d, calls[d]) # ConnOf(c, calls[c])
          /\ Cardinality(conns) = Cardinality({c \in DOMAIN calls : InFlight(calls[c])}))
    /\ [][\A c \in DOMAIN calls :
            calls'[c] # calls[c] =>
               /\ \A d \in DOMAIN calls \ {c} : calls'[d] = calls[d]
               /\ Globals' = Globals
               /\ conns' \ conns \subseteq {ConnOf(c, calls'[c])}
               /\ conns \ conns' \subseteq {ConnOf(c, calls[c])}
               /\ calls'[c] \in AloneSteps(calls[c], db_connection, has_getconn)]_vars

\* A tool invocation is at its second query while a resource invocation is
\* closing its connection after a failed fetch: two connections are open.
C12_Witness ==
    \E c, d \in DOMAIN calls :
       /\ calls[c].kind = "tool" /\ calls[c].pc = "fetch" /\ calls[c].qi = 2
       /\ calls[d].kind = "resource" /\ calls[d].pc = "close"
       /\ calls[d].pending = "error"
       /\ Cardinality(conns) = 2

(***************************************************************************)
(* Falsy filter values, checked under SpecBuild.                           *)
(***************************************************************************)
\* A filter value that is omitted, the identifier 0 or the empty string.
Vacuous(v) == v \in {None, IntV(0), StrV("")}

\* The argument mapping with every filter and search text that is 0 or ""
\* left out.
Omit(a) ==
    [f \in DOMAIN a |-> IF f # "limit" /\ Vacuous(a[f]) THEN None ELSE a[f]]

ReachesExecuteQuery(call) ==
    IF call.kind = "tool"
    THEN /\ call.name \in KnownTools
         /\ call.name = FetchTool => ~FetchBuild(call.args).rejected
         /\ call.name = SearchTool => ~SearchBuild(call.args).rejected
    ELSE call.name \in KnownUris

NotInitialized == ErrorResponse("Database connection not initialized")

\* C14: no query runs while the connection is uninitialised.  An invocation
\* that is connecting, fetching or closing, and every open connection, exist
\* only when db_connection is set and _getconn is stored.  An invocation that
\* calls execute_query on a connection object without _getconn ends at once
\* with RuntimeError 'Database connection not initialized' as its error text,
\* having acquired no connection and issued no query; call_tool invoked while
\* db_connection is None returns that error text, raises nothing and acquires
\* no connection.
C14_NoQueryWhileUninitialised ==
    /\ [](/\ \A c \in Slots :
                calls[c].pc \in {"connect", "fetch", "close"} =>
                   db_connection = "set" /\ has_getconn
          /\ conns # {} => db_connection = "set" /\ has_getconn)
    /\ [][\A c \in Slots :
            (calls[c].pc = "idle" /\ calls'[c].pc # "idle") =>
               LET call == calls'[c]
               IN  /\ (db_connection = "set" /\ ~has_getconn /\ ReachesExecuteQuery(call)) =>
                         /\ call.pc = "done" /\ call.exc = "RuntimeError"
                         /\ call.resp = <<NotInitialized>>
                         /\ call.acq = 0 /\ call.issued = <<>>
                         /\ conns' = conns
                   /\ (db_connection = "None" /\ call.kind = "tool") =>
                         /\ call.pc = "done" /\ call.raised = "none"
                         /\ call.resp = <<NotInitialized>>
                         /\ call.acq = 0 /\ call.issued = <<>>
                         /\ conns' = conns]_vars

\* initialize has failed: the connection object exists without _getconn, and
\* get_survey_summary has answered with the error text.
C14_Witness ==
    /\ db_connection = "set" /\ ~has_getconn
    /\ hist.raised = "ConnectorError"
    /\ \E c \in Slots :
          /\ calls[c].name = SummaryTool /\ calls[c].pc = "done"
          /\ calls[c].exc = "RuntimeError"
          /\ calls[c].resp = <<NotInitialized>>
          /\ calls[c].acq = 0

====
